---- MODULE Spec2Model ----
(***************************************************************************)
(* Panel simulation of multiply-or-release (src/src/panel_plugin.rs):      *)
(* the worker-ball spawner, the trail pool, the trigger translator, the    *)
(* zone-exit recycler and the restart coordinator, run by Bevy's Update    *)
(* schedule once per frame, with the Rapier physics step behind it.        *)
(*                                                                         *)
(* One frame ("tick") of the model:                                        *)
(*   the six Update systems take their turn in any order the schedule      *)
(*   allows (update_workers_particle_position -> sync point ->             *)
(*   spawn_workers is the only ordering of PanelPlugin::build); a system   *)
(*   whose run condition is false at its turn is skipped for the frame;    *)
(*   Commands are deferred and applied at the sync point and at the end    *)
(*   of the schedule; EndFrame then applies the rest, steps the physics,   *)
(*   collects its contact events and rolls the event buffers.              *)
(*                                                                         *)
(* Positions are the centres of the balls; a ball is on the spawn row or,  *)
(* once it has fallen, at the height of the trigger zones. The systems     *)
(* of the game this plugin does not own (the sender of RestartEvent, the   *)
(* survivors map, game_is_going, the removal of balls) act within the      *)
(* budget the initial state gives them.                                    *)
(***************************************************************************)
EXTENDS Integers, Sequences, FiniteSets, TLC

(* ---------------- program constants ---------------- *)
LEFT_ROOT_X == -500
RIGHT_ROOT_X == 500
ARENA_WIDTH == 260
WORKER_BALL_RADIUS == 5
WORKER_BALL_SPAWN_Y == 320
ARENA_WIDTH_FRAC_2 == ARENA_WIDTH \div 2
WORKER_BALL_DIAMETER == WORKER_BALL_RADIUS * 2
WORKER_BALL_SPAWN_TIMER_SECS == 10
\* utils::TRAIL_LIFETIME, in seconds: some value between 0 and the period
TRAIL_LIFETIME == 5

(* ---------------- bounds of the model ---------------- *)
\* population cap of the spawner (6 in the source), scaled down
WORKER_BALL_COUNT_MAX == 2
\* number of x values the uniform sampler can return
SampleCount == 3
\* longest contact-event batch one physics step produces
MaxEvents == 2
\* Time::delta of a frame, in seconds
FrameDelta == 5
\* number of Trail entities the pool may grow to
MaxTrails == 4
\* physics steps a ball placed at spawn height keeps overlapping the spawn row
TopSteps == 1
\* RestartEvents the environment sends in one run
MaxRestarts == 1
\* balls the external systems remove in one run
MaxRemovals == 1
\* physics steps of one run that report contact events
MaxBatches == 1
\* frames of one run in which game_is_going is false
MaxPauses == 1
\* frames of one run that come to their end
MaxFrames == 3
MaxHolds == 1

(* ---------------- domains ---------------- *)
Participant == {"A", "B", "C", "D"}
PanelRootSide == {"Left", "Right"}
\* the trigger zones of one panel, by their TriggerType
TriggerType == {"Multiply4", "BurstShot"}
NONE == "NONE"
\* a ball that has fallen below the spawn row is taken at the height of the
\* trigger zones
TRIGGER_ZONE_Y == -250

BallIds == 1 .. (2 * MaxTrails + 4)
Systems == {"update", "spawn", "reset", "trigger", "restart", "send"}

\* Uniform::new(-ARENA_WIDTH_FRAC_2, ARENA_WIDTH_FRAC_2): the values drawn
Samples ==
  {x \in {WORKER_BALL_DIAMETER * k : k \in 0 .. (SampleCount - 1)} :
      x >= -ARENA_WIDTH_FRAC_2 /\ x < ARENA_WIDTH_FRAC_2}

\* a faulty assignment that sends every participant to the right panel
ForParticipantRight(p) == "Right"

\* PanelRootSide::for_participant
for_participant(p) == IF p \in {"A", "B"} THEN "Left" ELSE "Right"

RootX(side) == IF side = "Left" THEN LEFT_ROOT_X ELSE RIGHT_ROOT_X

Abs(n) == IF n < 0 THEN -n ELSE n

Range(s) == {s[i] : i \in DOMAIN s}

\* Timer::tick of a repeating timer: <<elapsed', just_finished>>
TimerTick(elapsed, delta) ==
  LET e == elapsed + delta
  IN IF e >= WORKER_BALL_SPAWN_TIMER_SECS
       THEN <<e % WORKER_BALL_SPAWN_TIMER_SECS, TRUE>>
       ELSE <<e, FALSE>>

\* Timer::reset followed by tick(period - TRAIL_LIFETIME)
InitialElapsed ==
  TimerTick(0, WORKER_BALL_SPAWN_TIMER_SECS - TRAIL_LIFETIME)[1]

WorkerBallSpawner_new == [elapsed |-> InitialElapsed, counter |-> 0]

\* a faulty reset that ticks the timer without resetting it first
ResetWithoutTimerReset(s) ==
  [elapsed |-> TimerTick(s.elapsed, WORKER_BALL_SPAWN_TIMER_SECS - TRAIL_LIFETIME)[1],
   counter |-> 0]

\* WorkerBallSpawner::reset: timer.reset(), timer.tick(period - TRAIL_LIFETIME),
\* counter = 0
WorkerBallSpawner_reset(s) ==
  LET cleared == [s EXCEPT !.elapsed = 0]
  IN [elapsed |-> TimerTick(cleared.elapsed,
                            WORKER_BALL_SPAWN_TIMER_SECS - TRAIL_LIFETIME)[1],
      counter |-> 0]

VARIABLES
  balls,      \* live WorkerBall entities: id -> [owner, side, x, y, moving]
  rapier,     \* RapierContext after the last step: id -> [side, x, y]
  trails,     \* Trail entities: id -> [link, inactive, color, pos]
  tableA,     \* table order of the trails holding WorkerBallTrail
  tableB,     \* table order of the trails holding InactiveWorkerBallTrail
  spawner,    \* WorkerBallSpawner: [elapsed, counter]
  go_left,    \* Local<bool> of update_workers_particle_position
  collisions, \* Events<CollisionEvent>: the events the buffer holds, oldest first
  older,      \* how many of them were sent before the last Events::update
  cursors,    \* EventReader<CollisionEvent>: reader -> events already read
  unread,     \* RestartEvent readers: reader -> unread events {"prev","cur"}
  triggers,   \* TriggerEvents sent this frame
  cmds,       \* deferred Commands not yet applied
  done,       \* systems that had their turn this frame (and "sync")
  going,      \* game_is_going, as read this frame
  survivors,  \* ParticipantMap<bool> of the survivors (owned externally)
  env,        \* what the environment may still do: [restarts, removals,
              \* batches, events, pauses, holds, frames]
  log         \* the systems that ran this frame (observation only)

vars == <<balls, rapier, trails, tableA, tableB, spawner, go_left, collisions,
          older, cursors, unread, triggers, cmds, done, going, survivors, env,
          log>>


(* ---------------- entities and components ---------------- *)
\* Option<T>: <<>> is None, <<v>> is Some(v)
None == <<>>
Some(v) == <<v>>

ZoneEntity(tt) == <<"zone", tt>>
BallEntity(id) == <<"ball", id>>

\* Query<&TriggerType>::get(e).is_ok()
trigger_zone_query(e) == e[1] = "zone"

\* Query<&Participant, With<WorkerBall>>::get(e).is_ok(), over the live balls bs
worker_ball_query(bs, e) == e[1] = "ball" /\ e[2] \in DOMAIN bs

\* world position of a ball record: the panel root is its parent
WorldPos(b) == <<RootX(b.side) + b.x, b.y>>

\* resting position of an idle trail tagged is_left
RestPos(is_left) ==
  <<IF is_left THEN LEFT_ROOT_X ELSE RIGHT_ROOT_X, WORKER_BALL_SPAWN_Y>>

\* a faulty test whose shape is as wide as the arena
IntersectsArenaWide(p, q) ==
  (p[1] - q[1]) * (p[1] - q[1]) + (p[2] - q[2]) * (p[2] - q[2])
    <= ARENA_WIDTH * ARENA_WIDTH

\* parry's ball-ball intersection test: centres no further apart than the
\* sum of the radii
Intersects(p, q) ==
  (p[1] - q[1]) * (p[1] - q[1]) + (p[2] - q[2]) * (p[2] - q[2])
    <= WORKER_BALL_DIAMETER * WORKER_BALL_DIAMETER

\* RapierContext::intersection_with_shape(..).is_none() for a ball shape at
\* (x + root.x, WORKER_BALL_SPAWN_Y + root.y), against the dynamic balls the
\* physics world holds
NoIntersection(rp, side, x) ==
  \A id \in DOMAIN rp :
     ~Intersects(<<x + RootX(side), WORKER_BALL_SPAWN_Y>>, rp[id])

\* WorkerBallShapeCaster::get: the values the rejection loop can return, out
\* of the values env.samples the generator may draw
CasterGet(rp, side) == {x \in env.samples : NoIntersection(rp, side, x)}

\* Vec::swap_remove of the table row holding t
SwapRemove(tab, t) ==
  IF t \notin Range(tab) THEN tab
  ELSE LET i == CHOOSE j \in DOMAIN tab : tab[j] = t
           n == Len(tab)
       IN IF i = n THEN SubSeq(tab, 1, n - 1)
          ELSE [j \in 1 .. (n - 1) |-> IF j = i THEN tab[n] ELSE tab[j]]

Push(tab, t) == IF t \in Range(tab) THEN tab ELSE Append(tab, t)

\* function f without the key k
Without(f, k) == [j \in DOMAIN f \ {k} |-> f[j]]

\* function f with the key k set to v
With(f, k, v) == [j \in DOMAIN f \cup {k} |-> IF j = k THEN v ELSE f[j]]

(* ---------------- deferred commands ---------------- *)
\* WorkerBallBundle::new(participant, x, ..) spawned as a child of the root
NewBall(owner, side, x) ==
  [owner |-> owner, side |-> side, x |-> x, y |-> WORKER_BALL_SPAWN_Y,
   moving |-> FALSE, age |-> 0]

\* WorkerBallTrailBundle::new(target, target_x, color, ..)
NewTrail(ball, target_x, color) ==
  [link |-> Some(ball), inactive |-> None, color |-> color,
   pos |-> <<target_x, WORKER_BALL_SPAWN_Y>>]

\* a faulty activation that leaves the InactiveWorkerBallTrail tag in place
ActivateKeepTag(w, c) ==
  [w EXCEPT !.trails[c.trail].link = Some(c.ball),
            !.tableA = Push(w.tableA, c.trail)]

\* insert(WorkerBallTrail(ball)).remove::<InactiveWorkerBallTrail>()
Activate(w, c) ==
  [w EXCEPT !.trails[c.trail].link = Some(c.ball),
            !.trails[c.trail].inactive = None,
            !.tableB = SwapRemove(w.tableB, c.trail),
            !.tableA = Push(w.tableA, c.trail)]

\* insert(InactiveWorkerBallTrail(go_left)).remove::<WorkerBallTrail>()
Deactivate(w, c) ==
  [w EXCEPT !.trails[c.trail].inactive = Some(c.is_left),
            !.trails[c.trail].link = None,
            !.tableA = SwapRemove(w.tableA, c.trail),
            !.tableB = Push(w.tableB, c.trail)]

\* one command applied to the world w = [balls, trails, tableA, tableB]
ApplyOne(w, c) ==
  CASE c.op = "despawn" ->
         IF c.ball \in DOMAIN w.balls
           THEN [w EXCEPT !.balls = Without(w.balls, c.ball)]
           ELSE w
    [] c.op = "spawnBall" ->
         [w EXCEPT !.balls = With(w.balls, c.ball, NewBall(c.owner, c.side, c.x))]
    [] c.op = "spawnTrail" ->
         [w EXCEPT !.trails = With(w.trails, c.trail,
                                   NewTrail(c.ball, c.x, c.color)),
                   !.tableA = Push(w.tableA, c.trail)]
    [] c.op = "activate" -> Activate(w, c)
    [] c.op = "deactivate" -> Deactivate(w, c)

RECURSIVE ApplyCmds(_, _)
ApplyCmds(w, cs) ==
  IF cs = <<>> THEN w ELSE ApplyCmds(ApplyOne(w, Head(cs)), Tail(cs))

World == [balls |-> balls, trails |-> trails, tableA |-> tableA, tableB |-> tableB]

(* ---------------- event readers ---------------- *)
\* the EventReader<RestartEvent> cursors: the run condition of restart, the
\* second run condition of trigger_event, and trigger_event's own parameter
Readers == {"restart_cond", "trigger_cond", "trigger"}

\* the EventReader<CollisionEvent> cursors: the first run condition of
\* trigger_event, trigger_event's own parameter, and ball_reset's parameter
CollisionReaders == {"trigger_cond", "trigger", "reset"}

\* EventReader::read: the events reader r has not read yet
Unread(r) == SubSeq(collisions, cursors[r] + 1, Len(collisions))

\* the cursors once the readers in rs have read, or cleared, to the end
ReadToEnd(rs) ==
  [r \in CollisionReaders |-> IF r \in rs THEN Len(collisions) ELSE cursors[r]]

EmptyLog == {}

\* the state after setup, for the survivor maps in alive and an environment
\* that may still act as budget says
InitState(alive, budget) ==
  /\ balls = <<>>
  /\ rapier = <<>>
  /\ trails = <<>>
  /\ tableA = <<>>
  /\ tableB = <<>>
  /\ spawner = WorkerBallSpawner_new
  /\ go_left = FALSE
  /\ collisions = <<>>
  /\ older = 0
  /\ cursors = [r \in CollisionReaders |-> 0]
  /\ unread = [r \in Readers |-> {}]
  /\ triggers = <<>>
  /\ cmds = <<>>
  /\ done = {}
  /\ going = TRUE
  /\ survivors \in alive
  /\ env = budget
  /\ log = EmptyLog

Init ==
  InitState([Participant -> BOOLEAN],
            [restarts |-> MaxRestarts, removals |-> MaxRemovals, batches |-> 0,
             events |-> 0, pauses |-> MaxPauses, holds |-> 0, frames |-> MaxFrames,
             samples |-> Samples, trails |-> MaxTrails])

\* a system takes its turn: the schedule's only ordering is
\* update_workers_particle_position -> (sync point) -> spawn_workers
Turn(s) ==
  /\ s \notin done
  /\ s = "spawn" => "sync" \in done
  /\ done' = done \cup {s}

Ran(s) == log' = log \cup {s}


(* ---------------- update_workers_particle_position ---------------- *)
\* a faulty else branch that leaves the colour of the trail alone
GoIdleKeepColour(st, t) ==
  [trails |-> [st.trails EXCEPT ![t].pos = RestPos(st.go_left)],
   cmds |-> Append(st.cmds, [op |-> "deactivate", trail |-> t,
                             is_left |-> st.go_left]),
   go_left |-> ~st.go_left]

\* a faulty else branch that leaves the toggle alone
GoIdleNoFlip(st, t) ==
  [trails |-> [st.trails EXCEPT ![t].color = NONE,
                                ![t].pos = RestPos(st.go_left)],
   cmds |-> Append(st.cmds, [op |-> "deactivate", trail |-> t,
                             is_left |-> st.go_left]),
   go_left |-> st.go_left]

\* the else branch of the loop body: the linked ball does not resolve
GoIdle(st, t) ==
  [trails |-> [st.trails EXCEPT ![t].color = NONE,
                                ![t].pos = RestPos(st.go_left)],
   cmds |-> Append(st.cmds, [op |-> "deactivate", trail |-> t,
                             is_left |-> st.go_left]),
   go_left |-> ~st.go_left]

\* the loop over the trails holding WorkerBallTrail, in table order; st is
\* [trails, cmds, go_left]. GlobalTransform of a live ball is its position
\* as of the last physics step.
RECURSIVE UpdateLoop(_, _, _, _)
UpdateLoop(st, order, bs, rp) ==
  IF order = <<>> THEN st
  ELSE
    LET t == Head(order)
        ball_entity == st.trails[t].link[1]
        next ==
          IF ball_entity \in DOMAIN bs
            THEN [st EXCEPT !.trails[t].pos =
                     IF ball_entity \in DOMAIN rp THEN rp[ball_entity]
                     ELSE WorldPos(bs[ball_entity])]
            ELSE GoIdle(st, t)
    IN UpdateLoop(next, Tail(order), bs, rp)

update_workers_particle_position ==
  /\ Turn("update")
  /\ LET st == UpdateLoop([trails |-> trails, cmds |-> cmds, go_left |-> go_left],
                          tableA, balls, rapier)
     IN /\ trails' = st.trails
        /\ cmds' = st.cmds
        /\ go_left' = st.go_left
        /\ log' = log \cup {"update"}
                    \cup (IF st.go_left # go_left \/ Len(st.cmds) > Len(cmds)
                           THEN {"idled"} ELSE {})
  /\ UNCHANGED <<balls, rapier, tableA, tableB, spawner, collisions, older,
                 cursors, unread, triggers, going, survivors, env>>

(* ---------------- the sync point between update and spawn ---------------- *)
\* a faulty sync point that applies nothing
ApplyNothing == UNCHANGED <<balls, trails, tableA, tableB, cmds>>

\* apply_deferred: the commands of every system that has run so far
ApplyDeferred ==
  LET w == ApplyCmds(World, cmds)
  IN /\ balls' = w.balls
     /\ trails' = w.trails
     /\ tableA' = w.tableA
     /\ tableB' = w.tableB
     /\ cmds' = <<>>

SyncPoint ==
  /\ "update" \in done
  /\ "sync" \notin done
  /\ done' = done \cup {"sync"}
  /\ ApplyDeferred
  /\ UNCHANGED <<rapier, spawner, go_left, collisions, older, cursors, unread,
                 triggers, going, survivors, env, log>>

(* ---------------- trigger_event ---------------- *)
\* a faulty translator that looks for the zone in the first entity only
TranslateZoneFirst(bs, ev) ==
  IF ev.kind = "Started" /\ trigger_zone_query(ev.a) /\ worker_ball_query(bs, ev.b)
    THEN <<[participant |-> bs[ev.b[2]].owner, trigger_type |-> ev.a[2]]>>
    ELSE <<>>

\* a faulty translator that does not look at the kind of the event
TranslateAnyKind(bs, ev) ==
  IF ~(trigger_zone_query(ev.a) \/ trigger_zone_query(ev.b)) THEN <<>>
  ELSE IF ~(worker_ball_query(bs, ev.a) \/ worker_ball_query(bs, ev.b)) THEN <<>>
  ELSE LET zone == IF trigger_zone_query(ev.a) THEN ev.a ELSE ev.b
           ball == IF worker_ball_query(bs, ev.a) THEN ev.a ELSE ev.b
       IN <<[participant |-> bs[ball[2]].owner, trigger_type |-> zone[2]]>>

\* the loop body for one CollisionEvent: the TriggerEvents it sends
TranslateOne(bs, ev) ==
  IF ev.kind = "Started"
    THEN IF ~(trigger_zone_query(ev.a) \/ trigger_zone_query(ev.b)) THEN <<>>
         ELSE IF ~(worker_ball_query(bs, ev.a) \/ worker_ball_query(bs, ev.b))
                THEN <<>>
         ELSE LET zone == IF trigger_zone_query(ev.a) THEN ev.a ELSE ev.b
                  ball == IF worker_ball_query(bs, ev.a) THEN ev.a ELSE ev.b
              IN <<[participant |-> bs[ball[2]].owner, trigger_type |-> zone[2]]>>
    ELSE <<>>

RECURSIVE Translate(_, _)
Translate(bs, evs) ==
  IF evs = <<>> THEN <<>>
  ELSE TranslateOne(bs, Head(evs)) \o Translate(bs, Tail(evs))

\* a faulty body that keeps the batch when a restart signal is pending
TriggerBodyNoDiscard ==
  /\ triggers' = triggers \o Translate(balls, Unread("trigger"))
  /\ log' = log \cup {"trigger"} \cup (IF unread["trigger"] # {} THEN {"discard"} ELSE {})

\* a faulty body that translates the whole buffer, read or not
TriggerBodyReread ==
  IF unread["trigger"] # {}
    THEN /\ triggers' = triggers
         /\ log' = log \cup {"trigger", "discard"}
    ELSE /\ triggers' = triggers \o Translate(balls, collisions)
         /\ log' = log \cup {"trigger"}

\* the body of trigger_event: a pending restart signal clears both readers
TriggerBody ==
  IF unread["trigger"] # {}
    THEN /\ triggers' = triggers
         /\ log' = log \cup {"trigger", "discard"}
    ELSE /\ triggers' = triggers \o Translate(balls, Unread("trigger"))
         /\ Ran("trigger")

\* run_if(on_event::<CollisionEvent>().or_else(on_event::<RestartEvent>())):
\* the second condition is evaluated, and its reader drained, only when the
\* first is false
trigger_event ==
  /\ Turn("trigger")
  /\ IF Unread("trigger_cond") # <<>>
       THEN /\ TriggerBody
            /\ unread' = [unread EXCEPT !["trigger"] = {}]
            /\ cursors' = ReadToEnd({"trigger_cond", "trigger"})
       ELSE IF unread["trigger_cond"] # {}
         THEN /\ TriggerBody
              /\ unread' = [unread EXCEPT !["trigger"] = {}, !["trigger_cond"] = {}]
              /\ cursors' = ReadToEnd({"trigger"})
         ELSE /\ UNCHANGED <<triggers, log, unread, cursors>>
  /\ UNCHANGED <<balls, rapier, trails, tableA, tableB, spawner, go_left,
                 collisions, older, cmds, going, survivors, env>>

(* ---------------- restart ---------------- *)
\* a faulty loop body that tags every trail for the right panel
RestartStepTagRight(ts, t, gl) ==
  [ts EXCEPT ![t].color = NONE, ![t].pos = RestPos(gl), ![t].inactive = Some(FALSE)]

\* the loop body of restart for the idle trail t, with the local go_left = gl
RestartStep(ts, t, gl) ==
  [ts EXCEPT ![t].color = NONE, ![t].pos = RestPos(gl), ![t].inactive = Some(gl)]

\* the loop over the trails holding InactiveWorkerBallTrail, in table order
RECURSIVE RestartLoop(_, _, _)
RestartLoop(ts, order, gl) ==
  IF order = <<>> THEN ts
  ELSE RestartLoop(RestartStep(ts, Head(order), gl), Tail(order), ~gl)

\* the despawn_recursive commands for the balls of the garbage query
RECURSIVE DespawnAll(_)
DespawnAll(ids) ==
  IF ids = {} THEN <<>>
  ELSE LET id == CHOOSE i \in ids : \A j \in ids : i <= j
       IN <<[op |-> "despawn", ball |-> id]>> \o DespawnAll(ids \ {id})

\* the body of restart on st = [spawner, cmds, balls, trails, tableA, tableB]
RestartBody(st) ==
  [st EXCEPT !.spawner = WorkerBallSpawner_reset(@),
             !.cmds = @ \o DespawnAll(DOMAIN st.balls),
             !.trails = RestartLoop(@, st.tableB, FALSE)]

Whole == [spawner |-> spawner, cmds |-> cmds, balls |-> balls, trails |-> trails,
          tableA |-> tableA, tableB |-> tableB]

\* run_if(on_event::<RestartEvent>())
restart ==
  /\ Turn("restart")
  /\ IF unread["restart_cond"] # {}
       THEN /\ unread' = [unread EXCEPT !["restart_cond"] = {}]
            /\ spawner' = RestartBody(Whole).spawner
            /\ cmds' = RestartBody(Whole).cmds
            /\ trails' = RestartBody(Whole).trails
            /\ Ran("restart")
       ELSE UNCHANGED <<unread, spawner, cmds, trails, log>>
  /\ UNCHANGED <<balls, rapier, tableA, tableB, go_left, collisions, older,
                 cursors, triggers, going, survivors, env>>

(* ---------------- the sender of RestartEvent (external) ---------------- *)
SendRestart ==
  /\ Turn("send")
  /\ \/ /\ env.restarts > 0
        /\ unread' = [r \in Readers |-> unread[r] \cup {"cur"}]
        /\ env' = [env EXCEPT !.restarts = @ - 1]
        /\ Ran("send")
     \/ UNCHANGED <<unread, env, log>>
  /\ UNCHANGED <<balls, rapier, trails, tableA, tableB, spawner, go_left,
                 collisions, older, cursors, triggers, cmds, going, survivors>>

(* ---------------- ball_reset ---------------- *)
\* a faulty relocation that leaves the velocity alone
RelocateKeepVelocity(b, x) ==
  [b EXCEPT !.x = x, !.y = WORKER_BALL_SPAWN_Y, !.age = 0]

\* a faulty relocation that also hands the ball to the other participant of
\* its panel
RelocateToPartner(b, x) ==
  [b EXCEPT !.x = x, !.y = WORKER_BALL_SPAWN_Y, !.moving = FALSE, !.age = 0,
            !.owner = CHOOSE p \in Participant :
                         p # b.owner /\ for_participant(p) = for_participant(b.owner)]

\* the writes of one relocation: translation.x, translation.y and Velocity
\* (age counts the physics steps since the ball was put on the spawn row)
Relocate(b, x) ==
  [b EXCEPT !.x = x, !.y = WORKER_BALL_SPAWN_Y, !.moving = FALSE, !.age = 0]

\* the balls after the loop over the CollisionEvents: one result for every
\* way the placements can be drawn
RECURSIVE ResetLoop(_, _, _)
ResetLoop(bs, evs, rp) ==
  IF evs = <<>> THEN {bs}
  ELSE
    LET ev == Head(evs)
        zoned == trigger_zone_query(ev.a) \/ trigger_zone_query(ev.b)
        ball_entity == IF trigger_zone_query(ev.a) THEN ev.b ELSE ev.a
    IN IF ev.kind = "Stopped" /\ zoned /\ worker_ball_query(bs, ball_entity)
         THEN LET id == ball_entity[2]
                  target_side == for_participant(bs[id].owner)
              IN UNION {ResetLoop([bs EXCEPT ![id] = Relocate(@, x)], Tail(evs), rp) :
                          x \in CasterGet(rp, target_side)}
         ELSE ResetLoop(bs, Tail(evs), rp)

\* run_if(game_is_going)
ball_reset ==
  /\ Turn("reset")
  /\ IF going
       THEN /\ balls' \in ResetLoop(balls, Unread("reset"), rapier)
            /\ cursors' = ReadToEnd({"reset"})
            /\ Ran("reset")
       ELSE UNCHANGED <<balls, cursors, log>>
  /\ UNCHANGED <<rapier, trails, tableA, tableB, spawner, go_left, collisions,
                 older, unread, triggers, cmds, going, survivors, env>>

(* ---------------- spawn_workers ---------------- *)
\* a faulty gate that is always open: the system runs whatever the counter
SpawnConditionAlways == TRUE

\* a faulty gate that lets one round too many through
SpawnConditionOneMore == spawner.counter <= WORKER_BALL_COUNT_MAX

spawn_workers_condition == spawner.counter < WORKER_BALL_COUNT_MAX

\* entity ids a command or a component still refers to
BallRefs(cs) == {cs[i].ball : i \in {j \in DOMAIN cs : cs[j].op # "deactivate"}}

UsedBalls ==
  DOMAIN balls \cup DOMAIN rapier \cup BallRefs(cmds)
    \cup {trails[t].link[1] : t \in {u \in DOMAIN trails : trails[u].link # None}}
    \cup {collisions[i].a[2] : i \in {j \in DOMAIN collisions : collisions[j].a[1] = "ball"}}
    \cup {collisions[i].b[2] : i \in {j \in DOMAIN collisions : collisions[j].b[1] = "ball"}}

\* Commands::spawn reserves a new Entity: an id nothing refers to
FreshBall(used) == CHOOSE i \in BallIds \ used : \A j \in BallIds \ used : i <= j

SpawnedTrails(cs) == {i \in DOMAIN cs : cs[i].op = "spawnTrail"}

\* a faulty single-survivor branch that attaches no trail
SpawnSingleNoTrail(st, survivor, side, x) ==
  LET ball == FreshBall(st.used)
  IN [st EXCEPT
        !.cmds = @ \o <<[op |-> "spawnBall", ball |-> ball, owner |-> survivor,
                         side |-> side, x |-> x]>>,
        !.used = @ \cup {ball}]

\* the single-survivor branch of the closure f; st is [cmds, trails, used]
SpawnSingle(st, survivor, side, x) ==
  LET ball == FreshBall(st.used)
      trail == Cardinality(DOMAIN st.trails) + Cardinality(SpawnedTrails(st.cmds)) + 1
  IN [st EXCEPT
        !.cmds = @ \o <<[op |-> "spawnBall", ball |-> ball, owner |-> survivor,
                         side |-> side, x |-> x],
                        [op |-> "spawnTrail", trail |-> trail, ball |-> ball,
                         x |-> x + RootX(side), color |-> survivor]>>,
        !.used = @ \cup {ball}]

\* setup_trail(participant, x), handed the next item of trail_query_iter
\* (None when the iterator is exhausted)
SetupTrail(st, participant, side, x, next) ==
  LET ball == FreshBall(st.used)
      trail == Cardinality(DOMAIN st.trails) + Cardinality(SpawnedTrails(st.cmds)) + 1
      spawned == [op |-> "spawnBall", ball |-> ball, owner |-> participant,
                  side |-> side, x |-> x]
  IN IF next # None
       THEN [cmds |-> st.cmds \o <<spawned, [op |-> "activate", trail |-> next[1],
                                             ball |-> ball]>>,
             trails |-> [st.trails EXCEPT
                           ![next[1]].color = participant,
                           ![next[1]].pos = <<x + RootX(side), WORKER_BALL_SPAWN_Y>>],
             used |-> st.used \cup {ball}]
       ELSE [st EXCEPT
               !.cmds = @ \o <<spawned, [op |-> "spawnTrail", trail |-> trail,
                                         ball |-> ball, x |-> x + RootX(side),
                                         color |-> participant]>>,
               !.used = @ \cup {ball}]

\* trail_query.iter_mut().filter_map(..): the idle trails tagged want_left,
\* in table order
IdleTrails(ts, tab, want_left) ==
  SelectSeq(tab, LAMBDA t : ts[t].inactive = Some(want_left))

\* the closure f for one panel: every state it can leave behind
PanelSpawn(st, a, b, side, want_left, alive, rp) ==
  CASE ~alive[a] /\ ~alive[b] -> {st}
    [] alive[a] /\ ~alive[b] ->
         {SpawnSingle(st, a, side, x) : x \in CasterGet(rp, side)}
    [] ~alive[a] /\ alive[b] ->
         {SpawnSingle(st, b, side, x) : x \in CasterGet(rp, side)}
    [] alive[a] /\ alive[b] ->
         LET iter == IdleTrails(st.trails, tableB, want_left)
             item(k) == IF Len(iter) >= k THEN Some(iter[k]) ELSE None
         IN {SetupTrail(SetupTrail(st, a, side, xs[1], item(1)),
                        b, side, xs[2], item(2)) :
               xs \in {p \in CasterGet(rp, side) \X CasterGet(rp, side) :
                         Abs(p[1] - p[2]) > WORKER_BALL_DIAMETER}}

\* the trails a state st of the closure will hold once its commands apply
TrailCount(st) ==
  Cardinality(DOMAIN st.trails) + Cardinality(SpawnedTrails(st.cmds))

\* a faulty end of round that forgets the counter
AfterRoundNoCount(s, e) == [elapsed |-> e, counter |-> s.counter]

\* the spawner after a round: the timer as the tick left it and
\* spawner.counter += 1
AfterRound(s, e) == [elapsed |-> e, counter |-> s.counter + 1]

\* run_if(game_is_going.and_then(spawn_workers_condition))
spawn_workers ==
  /\ Turn("spawn")
  /\ IF going /\ spawn_workers_condition
       THEN LET tick == TimerTick(spawner.elapsed, FrameDelta)
            IN IF ~tick[2]
                 THEN /\ spawner' = [spawner EXCEPT !.elapsed = tick[1]]
                      /\ Ran("spawn")
                      /\ UNCHANGED <<cmds, trails>>
                 ELSE \E left \in PanelSpawn([cmds |-> cmds, trails |-> trails,
                                                used |-> UsedBalls],
                                               "A", "B", "Left", TRUE,
                                               survivors, rapier) :
                          \E right \in PanelSpawn(left, "C", "D", "Right", FALSE,
                                                  survivors, rapier) :
                            /\ TrailCount(right) <= env.trails
                            /\ cmds' = right.cmds
                            /\ trails' = right.trails
                            /\ spawner' = AfterRound(spawner, tick[1])
                            /\ log' = log \cup {"spawn", "fired"}
       ELSE UNCHANGED <<spawner, cmds, trails, log>>
  /\ UNCHANGED <<balls, rapier, tableA, tableB, go_left, collisions, older,
                 cursors, unread, triggers, going, survivors, env>>


(* ---------------- end of the frame: physics step and event buffers ------- *)
\* one physics step of a dynamic ball: it leaves the spawn row after TopSteps
\* steps and gains velocity under gravity
StepBall(b) ==
  IF b.y = WORKER_BALL_SPAWN_Y /\ b.age < TopSteps
    THEN [b EXCEPT !.age = @ + 1, !.moving = TRUE]
    ELSE [b EXCEPT !.x = 0, !.y = TRIGGER_ZONE_Y, !.age = 0, !.moving = TRUE]

\* the contact events one step can report: only trigger zones carry
\* ActiveEvents::COLLISION_EVENTS, so every event pairs a zone with a ball,
\* in either order; a removed collider only ends contacts
ContactEvents(low, removed) ==
  {[kind |-> k, a |-> e[1], b |-> e[2]] :
     k \in {"Started", "Stopped"},
     e \in UNION {{<<ZoneEntity(tt), BallEntity(id)>>, <<BallEntity(id), ZoneEntity(tt)>>} :
                    tt \in TriggerType, id \in low}}
  \cup
  {[kind |-> "Stopped", a |-> e[1], b |-> e[2]] :
     e \in UNION {{<<ZoneEntity(tt), BallEntity(id)>>, <<BallEntity(id), ZoneEntity(tt)>>} :
                    tt \in TriggerType, id \in removed}}

Batches(low, removed, most) ==
  UNION {[1 .. n -> ContactEvents(low, removed)] : n \in 0 .. most}

\* Events::update: an event is readable in the frame it was sent in and in
\* the next one
RollEvents(u) == [r \in Readers |-> IF "cur" \in u[r] THEN {"prev"} ELSE {}]

\* Events::update on Events<CollisionEvent>: the events sent before the last
\* update are dropped, and every cursor moves back with them
DropOlder(evs, n) == SubSeq(evs, n + 1, Len(evs))
MoveCursors(cs, n) ==
  [r \in CollisionReaders |-> IF cs[r] > n THEN cs[r] - n ELSE 0]

EndFrame ==
  /\ done = Systems \cup {"sync"}
  /\ env.frames > 0
  /\ \E gone \in {{}} \cup {{id} : id \in IF env.removals > 0
                                             THEN DOMAIN balls ELSE {}},
        pause \in IF env.pauses > 0 THEN BOOLEAN ELSE {FALSE},
        hold \in IF env.holds > 0 THEN BOOLEAN ELSE {FALSE} :
       LET w == ApplyCmds(World, cmds)
           kept == [id \in DOMAIN w.balls \ gone |-> StepBall(w.balls[id])]
           low == {id \in DOMAIN kept : kept[id].y = TRIGGER_ZONE_Y}
           removed == DOMAIN rapier \ DOMAIN kept
       IN /\ balls' = kept
          /\ rapier' = [id \in DOMAIN kept |-> WorldPos(kept[id])]
          /\ trails' = w.trails
          /\ tableA' = w.tableA
          /\ tableB' = w.tableB
          /\ \E batch \in Batches(low, removed,
                                   IF env.batches > 0 THEN env.events ELSE 0) :
               /\ IF hold
                    THEN /\ collisions' = collisions \o batch
                         /\ UNCHANGED <<older, cursors, unread>>
                    ELSE /\ collisions' = DropOlder(collisions, older) \o batch
                         /\ older' = Len(collisions')
                         /\ cursors' = MoveCursors(cursors, older)
                         /\ unread' = RollEvents(unread)
               /\ env' = [restarts |-> env.restarts,
                          removals |-> env.removals - Cardinality(gone),
                          batches |-> env.batches - (IF batch # <<>> THEN 1 ELSE 0),
                          events |-> env.events,
                          pauses |-> env.pauses - (IF pause THEN 1 ELSE 0),
                          holds |-> env.holds - (IF hold THEN 1 ELSE 0),
                          frames |-> env.frames - 1,
                          samples |-> env.samples,
                          trails |-> env.trails]
          /\ going' = ~pause
  /\ cmds' = <<>>
  /\ triggers' = <<>>
  /\ done' = {}
  /\ log' = EmptyLog
  /\ UNCHANGED <<spawner, go_left, survivors>>

Next ==
  \/ update_workers_particle_position
  \/ SyncPoint
  \/ spawn_workers
  \/ ball_reset
  \/ trigger_event
  \/ restart
  \/ SendRestart
  \/ EndFrame

Spec == Init /\ [][Next]_vars

\* the same program, with the two participants of one panel alive, under an
\* environment that reports contact events
PairLeft == [p \in Participant |-> p \in {"A", "B"}]
PairRight == [p \in Participant |-> p \in {"C", "D"}]

InitContacts ==
  InitState({PairLeft, PairRight},
            [restarts |-> MaxRestarts, removals |-> 0, batches |-> MaxBatches,
             events |-> MaxEvents, pauses |-> 0, holds |-> 0, frames |-> MaxFrames,
             samples |-> Samples, trails |-> MaxTrails])

SpecContacts == InitContacts /\ [][Next]_vars

\* the same program over a longer run, with one survivor on the right panel
\* or both of them: long enough for the spawner to reach its cap and, with
\* restarts in between, to start over
Lone == [p \in Participant |-> p = "D"]

InitLong ==
  InitState({Lone, PairRight},
            [restarts |-> MaxRestarts + 1, removals |-> 0, batches |-> 0,
             events |-> 0, pauses |-> 0, holds |-> 0, frames |-> MaxFrames + 2,
             samples |-> Samples, trails |-> MaxTrails])

SpecLong == InitLong /\ [][Next]_vars

\* the same program with A and B alive, under an environment that reports
\* single contact events in two physics steps and may skip one Events::update
InitEvents ==
  InitState({PairLeft},
            [restarts |-> MaxRestarts, removals |-> 0, batches |-> MaxBatches + 1,
             events |-> MaxEvents - 1, pauses |-> 0, holds |-> MaxHolds, frames |-> MaxFrames,
             samples |-> Samples, trails |-> MaxTrails])

SpecEvents == InitEvents /\ [][Next]_vars

\* the same program with a single survivor, A or D, under an environment
\* that reports one batch of contact events
LoneLeft == [p \in Participant |-> p = "A"]

InitRecycle ==
  InitState({LoneLeft, Lone},
            [restarts |-> MaxRestarts, removals |-> 0, batches |-> MaxBatches,
             events |-> MaxEvents, pauses |-> 0, holds |-> 0, frames |-> MaxFrames,
             samples |-> Samples, trails |-> MaxTrails])

SpecRecycle == InitRecycle /\ [][Next]_vars

\* the same program with one survivor on each panel, A and D, over three
\* games: two restarts, and ticks enough for the rounds of each game
OneEach == [p \in Participant |-> p \in {"A", "D"}]

InitPool ==
  InitState({OneEach},
            [restarts |-> MaxRestarts + 1, removals |-> 0, batches |-> 0,
             events |-> 0, pauses |-> 0, holds |-> 0, frames |-> MaxFrames + 4,
             samples |-> Samples, trails |-> 4 * WORKER_BALL_COUNT_MAX + 2])

SpecPool == InitPool /\ [][Next]_vars

\* the same program with C and D alive and one restart, the generator
\* drawing values two ball diameters apart so that a pair resting on the
\* spawn row leaves room for the next round
SpreadSamples ==
  {x \in {2 * WORKER_BALL_DIAMETER * k : k \in 0 .. SampleCount} :
      x >= -ARENA_WIDTH_FRAC_2 /\ x < ARENA_WIDTH_FRAC_2}

InitCap ==
  InitState({PairRight},
            [restarts |-> MaxRestarts, removals |-> 0, batches |-> 0,
             events |-> 0, pauses |-> 0, holds |-> 0, frames |-> MaxFrames + 1,
             samples |-> SpreadSamples, trails |-> 4 * WORKER_BALL_COUNT_MAX + 2])

SpecCap == InitCap /\ [][Next]_vars

\* trigger_event alone, on a tick that starts with any batch of up to
\* MaxEvents contact events between any two of: the trigger zones, two
\* worker balls of which any may have been removed since the physics step,
\* and a collider that is neither
OtherEntity == <<"other", 0>>

AnyEntity == {ZoneEntity(tt) : tt \in TriggerType} \cup {BallEntity(1), BallEntity(2)}
               \cup {OtherEntity}

AnyEvents ==
  {[kind |-> k, a |-> e[1], b |-> e[2]] :
     k \in {"Started", "Stopped"},
     e \in {p \in AnyEntity \X AnyEntity : p[1] # p[2]}}

\* a ball that has fallen to the trigger zones: 1 is A's, 2 is C's
FallenBall(id) ==
  LET owner == IF id = 1 THEN "A" ELSE "C"
  IN [NewBall(owner, for_participant(owner), 0) EXCEPT
        !.y = TRIGGER_ZONE_Y, !.moving = TRUE]

InitTranslator ==
  /\ \E live \in SUBSET {1, 2} : balls = [id \in live |-> FallenBall(id)]
  /\ rapier = [id \in DOMAIN balls |-> WorldPos(balls[id])]
  /\ trails = [t \in {1, 2} |->
                 NewTrail(t, RootX(FallenBall(t).side), FallenBall(t).owner)]
  /\ tableA = <<1, 2>>
  /\ tableB = <<>>
  /\ spawner = [elapsed |-> 0, counter |-> 1]
  /\ go_left = FALSE
  /\ collisions \in UNION {[1 .. n -> AnyEvents] : n \in 0 .. MaxEvents}
  /\ older = Len(collisions)
  /\ cursors = [r \in CollisionReaders |-> 0]
  /\ unread = [r \in Readers |-> {}]
  /\ triggers = <<>>
  /\ cmds = <<>>
  /\ done = {}
  /\ going = TRUE
  /\ survivors = [p \in Participant |-> p \in {"A", "C"}]
  /\ env = [restarts |-> 0, removals |-> 0, batches |-> 0, events |-> 0,
            pauses |-> 0, holds |-> 0, frames |-> 0,
            samples |-> Samples, trails |-> MaxTrails]
  /\ log = EmptyLog

NextTranslator == trigger_event

SpecTranslator == InitTranslator /\ [][NextTranslator]_vars

(* ---------------- the placement loops at a full panel ---------------- *)
\* the values Uniform::new(-ARENA_WIDTH_FRAC_2, ARENA_WIDTH_FRAC_2) draws
\* from, one per ball diameter over the whole width of the panel
ArenaSamples ==
  {x \in (-ARENA_WIDTH_FRAC_2) .. (ARENA_WIDTH_FRAC_2 - 1) :
      x % WORKER_BALL_DIAMETER = 0}

\* where a ball of the right panel can be found on the spawn row
RowPlaces == {x \in ArenaSamples : x % (2 * WORKER_BALL_DIAMETER) = 0}

\* the balls a panel may hold: 2 per spawn round, WORKER_BALL_COUNT_MAX rounds
PanelCap == 2 * WORKER_BALL_COUNT_MAX

\* the k-th smallest member of the set xs
Nth(xs, k) == CHOOSE x \in xs : Cardinality({y \in xs : y <= x}) = k

\* a ball of the right panel still on the spawn row after its first step
RowBall(id, x) ==
  StepBall(NewBall(IF id % 2 = 1 THEN "C" ELSE "D", "Right", x))

\* the right panel holds up to PanelCap balls, all on the spawn row and all in
\* the physics world; a restart has cleared the counter and the timer runs
\* out in this tick
InitPlacement ==
  /\ \E xs \in {q \in SUBSET RowPlaces : Cardinality(q) <= PanelCap} :
        balls = [id \in 1 .. Cardinality(xs) |-> RowBall(id, Nth(xs, id))]
  /\ rapier = [id \in DOMAIN balls |-> WorldPos(balls[id])]
  /\ trails = [t \in DOMAIN balls |->
                 NewTrail(t, WorldPos(balls[t])[1], balls[t].owner)]
  /\ tableA = [t \in DOMAIN balls |-> t]
  /\ tableB = <<>>
  /\ spawner = WorkerBallSpawner_reset(WorkerBallSpawner_new)
  /\ go_left = FALSE
  /\ collisions = <<>>
  /\ older = 0
  /\ cursors = [r \in CollisionReaders |-> 0]
  /\ unread = [r \in Readers |-> {}]
  /\ triggers = <<>>
  /\ cmds = <<>>
  /\ done = {}
  /\ going = TRUE
  /\ survivors \in {Lone, PairRight}
  /\ env = [restarts |-> 0, removals |-> 0, batches |-> 0, events |-> 0,
            pauses |-> 0, holds |-> 0, frames |-> 0,
            samples |-> ArenaSamples, trails |-> PanelCap + 2]
  /\ log = EmptyLog

NextPlacement == update_workers_particle_position \/ SyncPoint \/ spawn_workers

SpecPlacement == InitPlacement /\ [][NextPlacement]_vars


(* ---------------- properties ---------------- *)
\* the step in which system s takes its turn
Took(s) == s \notin done /\ s \in done'

\* the step that ends the frame
FrameEnds == done = Systems \cup {"sync"} /\ done' = {}

\* the worker ball and the trigger zone of a contact event
BallOf(ev) == IF ev.a[1] = "ball" THEN ev.a[2] ELSE ev.b[2]
ZoneOf(ev) == IF ev.a[1] = "zone" THEN ev.a[2] ELSE ev.b[2]

\* centres at least one ball diameter apart
Apart(p, q) ==
  (p[1] - q[1]) * (p[1] - q[1]) + (p[2] - q[2]) * (p[2] - q[2])
    >= WORKER_BALL_DIAMETER * WORKER_BALL_DIAMETER

\* the commands queued by the step, and the balls it creates
NewCmds == SubSeq(cmds', Len(cmds) + 1, Len(cmds'))
Created == {c \in Range(NewCmds) : c.op = "spawnBall"}
CreatedOn(side) == {c \in Created : c.side = side}

\* balls that no queued command despawns
Staying == {id \in DOMAIN balls : \A i \in DOMAIN cmds :
              ~(cmds[i].op = "despawn" /\ cmds[i].ball = id)}

\* ball_reset moved the ball this frame: its Transform is on the spawn row
\* while the physics world still holds it below
Relocated(id) ==
  /\ id \in DOMAIN balls /\ id \in DOMAIN rapier
  /\ balls[id].y = WORKER_BALL_SPAWN_Y
  /\ rapier[id][2] = TRIGGER_ZONE_Y

\* every event of the batch is a contact-begin of a zone with a live ball
AllBegin ==
  \A i \in DOMAIN collisions :
     collisions[i].kind = "Started" /\ BallOf(collisions[i]) \in DOMAIN balls

\* C1: when trigger_event sees no restart signal and the batch holds N
\* contact-begin events, each of a zone with a live ball in either entity
\* order, it sends exactly N TriggerEvents, the i-th with the owner of the
\* i-th ball and the TriggerType of the i-th zone.
C1_TriggerExactness ==
  [][(Took("trigger") /\ unread["trigger"] = {} /\ AllBegin)
       => triggers' = [i \in DOMAIN collisions |->
                         [participant |-> balls[BallOf(collisions[i])].owner,
                          trigger_type |-> ZoneOf(collisions[i])]]]_vars

\* C1 witness: trigger_event has translated a batch of two contact-begin
\* events, one zone-first and one ball-first, of different participants.
C1_TwoOrdersTranslated ==
  /\ "trigger" \in log /\ "discard" \notin log
  /\ Len(collisions) = 2 /\ AllBegin
  /\ collisions[1].a[1] = "zone" /\ collisions[2].a[1] = "ball"
  /\ Len(triggers) = 2
  /\ triggers[1].participant # triggers[2].participant

\* C2: when trigger_event sees a restart signal, it sends no TriggerEvent in
\* that tick, whatever contact-begin events are pending.
C2_RestartDiscard ==
  [][(Took("trigger") /\ unread["trigger"] # {}) => triggers' = <<>>]_vars

\* C2 witness: trigger_event has discarded a batch that held a contact-begin
\* event of a zone with a live ball.
C2_BatchDiscarded ==
  /\ "discard" \in log
  /\ triggers = <<>>
  /\ \E i \in DOMAIN collisions :
       collisions[i].kind = "Started" /\ BallOf(collisions[i]) \in DOMAIN balls

\* C3: every ball spawn_workers places is at least one ball diameter away
\* from every other live ball of its panel, a ball ball_reset relocated
\* earlier in the tick included, and the two x of a paired spawn differ by at
\* least one ball diameter.
C3_SpawnNoOverlap ==
  [][Took("spawn") =>
       /\ \A c \in Created : \A id \in Staying :
            balls[id].side = c.side
              => Apart(<<RootX(c.side) + c.x, WORKER_BALL_SPAWN_Y>>,
                       WorldPos(balls[id]))
       /\ \A c, d \in Created :
            (c # d /\ c.side = d.side) => Abs(c.x - d.x) >= WORKER_BALL_DIAMETER]_vars

\* C4: at the end of a tick, a ball relocated by ball_reset in that tick
\* overlaps no other live ball of its panel.
C4_RecycleNoOverlap ==
  done = Systems \cup {"sync"} =>
    \A id \in Staying : \A other \in Staying \ {id} :
       (Relocated(id) /\ balls[other].side = balls[id].side)
         => Apart(WorldPos(balls[id]), WorldPos(balls[other]))

\* the batch holds a contact-end of a zone with the live ball id
Recycled(id) ==
  \E i \in DOMAIN collisions :
     collisions[i].kind = "Stopped" /\ BallOf(collisions[i]) = id

\* C5: ball_reset leaves every live ball that has a contact-end with a zone
\* in the batch with zero velocity, on the spawn row, with x inside the span
\* of the panel of its owner; it moves no other ball.
C5_RecycleEffect ==
  [][(Took("reset") /\ going) =>
       /\ DOMAIN balls' = DOMAIN balls
       /\ \A id \in DOMAIN balls :
            IF Recycled(id)
              THEN /\ ~balls'[id].moving
                   /\ balls'[id].y = WORKER_BALL_SPAWN_Y
                   /\ balls'[id].x >= -ARENA_WIDTH_FRAC_2
                   /\ balls'[id].x < ARENA_WIDTH_FRAC_2
                   /\ balls'[id].owner = balls[id].owner
                   /\ balls'[id].side = for_participant(balls[id].owner)
              ELSE balls'[id] = balls[id]]_vars

\* C5 witness: ball_reset has relocated a falling ball named by a ball-first
\* contact-end and stopped it.
C5_BallRecycled ==
  /\ "reset" \in log
  /\ \E i \in DOMAIN collisions :
       /\ collisions[i].kind = "Stopped"
       /\ collisions[i].a[1] = "ball"
       /\ Relocated(collisions[i].a[2])
       /\ ~balls[collisions[i].a[2]].moving

\* the idle trails tagged for a panel
IdleCount(want_left) ==
  Cardinality({t \in DOMAIN trails : trails[t].inactive = Some(want_left)})

\* the Trail entities the step allocates for the balls of a panel
Allocated(side) ==
  {c \in Range(NewCmds) :
     c.op = "spawnTrail" /\ \E b \in CreatedOn(side) : b.ball = c.ball}

\* C6: for the balls spawn_workers creates on a panel, a Trail is allocated
\* only for a ball that finds no idle trail tagged with its side: the pool
\* grows by the number of created balls beyond the idle trails of that side.
C6_TrailConservation ==
  [][Took("spawn") =>
       \A side \in PanelRootSide :
          LET made == Cardinality(CreatedOn(side))
              idle == IdleCount(side = "Left")
          IN Cardinality(Allocated(side)) = (IF made > idle THEN made - idle ELSE 0)]_vars

\* C7: when restart has run, every trail of the pool is idle, has its colour
\* suppressed and sits at a resting position.
C7_RestartIdlesEveryTrail ==
  [][(Took("restart") /\ "restart" \in log') =>
       \A t \in DOMAIN trails' :
          /\ trails'[t].inactive # None
          /\ trails'[t].color = NONE
          /\ trails'[t].pos \in {RestPos(TRUE), RestPos(FALSE)}]_vars

\* C8: at the end of a tick in which restart ran, no WorkerBall exists.
C8_RestartEmptiesPanels ==
  [][(FrameEnds /\ "restart" \in log) => DOMAIN balls' = {}]_vars

\* what is left of a state once its commands are applied
Observable(st) ==
  LET w == ApplyCmds([balls |-> st.balls, trails |-> st.trails,
                      tableA |-> st.tableA, tableB |-> st.tableB], st.cmds)
  IN [balls |-> w.balls, trails |-> w.trails, spawner |-> st.spawner]

\* C9: running restart twice in a row, from a state with no command pending,
\* leaves the state that running it once leaves: no ball, counter 0, the
\* timer at its initial phase, every trail idle, suppressed and at a resting
\* position with the same tag.
C9_RestartIdempotent ==
  ("restart" \notin done /\ cmds = <<>>) =>
    LET once == Observable(RestartBody(Whole))
        twice == Observable(RestartBody(RestartBody(Whole)))
    IN /\ twice = once
       /\ DOMAIN once.balls = {}
       /\ once.spawner = [elapsed |-> InitialElapsed, counter |-> 0]
       /\ \A t \in DOMAIN once.trails :
            /\ once.trails[t].inactive # None
            /\ once.trails[t].color = NONE
            /\ once.trails[t].pos = RestPos(once.trails[t].inactive[1])

\* the trails the step attaches to a created ball
Attached(b) ==
  {c \in Range(NewCmds) : c.op \in {"spawnTrail", "activate"} /\ c.ball = b.ball}

\* the rule of one panel: one ball for each alive participant of the panel,
\* none for a dead one, each with exactly one trail
PanelRule(a, b, side) ==
  /\ \A c \in CreatedOn(side) :
       /\ c.owner \in {a, b}
       /\ survivors[c.owner]
       /\ Cardinality(Attached(c)) = 1
  /\ Cardinality(CreatedOn(side)) = Cardinality({p \in {a, b} : survivors[p]})
  /\ \A p \in {a, b} : survivors[p] => \E c \in CreatedOn(side) : c.owner = p

\* C10: when the spawner fires, each panel gets no ball if both its
\* participants are dead, one ball of the alive participant with one trail
\* if exactly one is alive, two balls, one of each participant, each with one
\* trail, if both are alive; a dead participant gets no ball.
C10_SpawnPerSurvivor ==
  [][Took("spawn") =>
       IF "fired" \in log'
         THEN /\ PanelRule("A", "B", "Left")
              /\ PanelRule("C", "D", "Right")
              /\ \A c \in Range(NewCmds) : c.op \in {"spawnBall", "spawnTrail", "activate"}
         ELSE NewCmds = <<>>]_vars

\* C10 witness: the spawner has fired with A alive, B dead, C and D alive: one
\* ball on the left, two on the right, one of them taking an idle trail.
C10_MixedPanelsFired ==
  /\ "fired" \in log
  /\ survivors["A"] /\ ~survivors["B"] /\ survivors["C"] /\ survivors["D"]
  /\ Cardinality({i \in DOMAIN cmds : cmds[i].op = "spawnBall"}) = 3
  /\ \E i \in DOMAIN cmds : cmds[i].op = "activate"

\* C11: the round counter never exceeds WORKER_BALL_COUNT_MAX; while it
\* equals the cap no step creates a WorkerBall, in that tick or a later one;
\* a restart that runs puts the counter back to 0, below the cap, so that
\* spawn_workers is enabled again.
C11_SpawnCap ==
  [][/\ spawner'.counter <= WORKER_BALL_COUNT_MAX
     /\ (spawner.counter = WORKER_BALL_COUNT_MAX) => Created = {}
     /\ (Took("restart") /\ "restart" \in log')
          => spawner'.counter = 0 /\ spawner'.counter < WORKER_BALL_COUNT_MAX]_vars

\* C11 witness: the timer of a capped spawner has run out again, spawn_workers
\* has had its turn in that tick, and no ball was created.
C11_CappedTurnPassed ==
  /\ spawner.counter = WORKER_BALL_COUNT_MAX
  /\ "spawn" \in done /\ "fired" \notin log
  /\ going
  /\ env.frames <= 1
  /\ cmds = <<>>

\* the Active trails linked to ball id
LinkedTo(id) == {t \in DOMAIN trails : trails[t].link = Some(id)}

\* C12: every trail is in exactly one of the two states, Active (it holds a
\* link and sits in the table of the Active trails) or Idle (it holds a side
\* tag and sits in the table of the Idle trails), never both and never
\* neither; every live WorkerBall is the link target of at most one Active
\* trail.
C12_TrailStates ==
  /\ \A t \in DOMAIN trails :
       /\ (trails[t].link # None) # (trails[t].inactive # None)
       /\ (t \in Range(tableA)) <=> (trails[t].link # None)
       /\ (t \in Range(tableB)) <=> (trails[t].inactive # None)
  /\ \A id \in DOMAIN balls : Cardinality(LinkedTo(id)) <= 1

\* C12 witness: with C and D alive, after a ball disappeared, a restart and a
\* second round that reused an idle trail: three trails, one idle, the other
\* two each linked to one of the two live balls.
C12_ReusedAfterRestart ==
  /\ done = {}
  /\ survivors = PairRight
  /\ env.restarts = 0 /\ env.removals = 0
  /\ Cardinality(DOMAIN trails) = 3
  /\ Cardinality(DOMAIN balls) = 2
  /\ \A id \in DOMAIN balls : Cardinality(LinkedTo(id)) = 1
  /\ Cardinality({t \in DOMAIN trails : trails[t].inactive # None}) = 1

\* the events of the buffer that trigger_event has not read yet
Fresh == SubSeq(collisions, cursors["trigger"] + 1, Len(collisions))

\* the contact-begin events of a sequence whose ball is alive
Begins(evs) ==
  SelectSeq(evs, LAMBDA ev : ev.kind = "Started" /\ BallOf(ev) \in DOMAIN balls)

\* C13: with no restart signal pending, trigger_event sends exactly one
\* TriggerEvent, in order, for every contact-begin of a zone with a live ball
\* that it has not read before, and none for an event it has read, however
\* long the buffer keeps that event; no other step sends a TriggerEvent; at
\* the end of every tick trigger_event has read the whole buffer, so that no
\* event leaves the buffer unread.
C13_TranslatedOnce ==
  [][/\ (Took("trigger") /\ unread["trigger"] = {})
          => triggers' = triggers \o
               [i \in DOMAIN Begins(Fresh) |->
                  [participant |-> balls[BallOf(Begins(Fresh)[i])].owner,
                   trigger_type |-> ZoneOf(Begins(Fresh)[i])]]
     /\ Took("trigger") => cursors'["trigger"] = Len(collisions)
     /\ (~Took("trigger") /\ ~FrameEnds) => triggers' = triggers
     /\ FrameEnds => cursors["trigger"] = Len(collisions)]_vars

\* C13 witness: no restart signal was ever sent; the buffer still holds a
\* contact-begin that was translated in the tick before, next to a new one;
\* trigger_event has run and sent one TriggerEvent, for the new one.
C13_OldEventKept ==
  /\ env.restarts = MaxRestarts /\ env.holds < MaxHolds
  /\ Len(collisions) = 2
  /\ Begins(collisions) = collisions
  /\ "trigger" \in log /\ "discard" \notin log
  /\ cursors["trigger"] = 2
  /\ triggers = <<[participant |-> balls[BallOf(collisions[2])].owner,
                   trigger_type |-> ZoneOf(collisions[2])]>>

C15_FreedBeforeSpawn ==
  [][Took("spawn") =>
       /\ {"update", "sync"} \subseteq done
       /\ \A t \in DOMAIN trails :
            IF trails[t].link # None
              THEN trails[t].link[1] \in DOMAIN rapier
              ELSE /\ trails[t].inactive # None
                   /\ t \in Range(IdleTrails(trails, tableB, trails[t].inactive[1]))]_vars

\* C15 witness: a ball was removed in the tick before; the trail update of
\* this tick has turned its trail Idle, and spawn_workers, firing in this
\* tick for C and D, has taken that trail for a new ball.
C15_FreedTrailTaken ==
  /\ {"idled", "fired"} \subseteq log
  /\ survivors = PairRight
  /\ env.removals = 0 /\ env.restarts = MaxRestarts
  /\ \E i \in DOMAIN cmds : cmds[i].op = "activate"

\* the commands of the step that move trail t to Idle
Idled(t) == {i \in DOMAIN NewCmds : NewCmds[i].op = "deactivate" /\ NewCmds[i].trail = t}

\* the sync point takes its turn
SyncStep == "sync" \notin done /\ "sync" \in done'

\* C16: when update_workers_particle_position runs, an Active trail whose
\* ball no longer exists gets its colour suppressed and exactly one command
\* that makes it Idle; an Active trail whose ball resolves keeps its colour,
\* gets no such command and takes the position of the ball; once the commands
\* of the update are applied, no Active trail links to a ball that was gone
\* when the update ran; the update runs in every tick, so the trail of a
\* vanished ball is Idle within the next tick.
C16_VanishedBallIdles ==
  [][/\ Took("update") =>
          \A t \in Range(tableA) :
             LET id == trails[t].link[1]
             IN IF id \in DOMAIN balls
                  THEN /\ Idled(t) = {}
                       /\ trails'[t].color = trails[t].color
                       /\ trails'[t].pos = (IF id \in DOMAIN rapier THEN rapier[id]
                                            ELSE WorldPos(balls[id]))
                  ELSE /\ Cardinality(Idled(t)) = 1
                       /\ trails'[t].color = NONE
     /\ SyncStep =>
          \A t \in DOMAIN trails' :
             IF trails'[t].link # None
               THEN trails'[t].link[1] \in DOMAIN balls
               ELSE trails'[t].inactive # None /\ trails'[t].color = NONE
     /\ FrameEnds => "update" \in log]_vars

\* C16 witness: the trail update has run over two Active trails, one of a
\* ball that is gone and one of a ball that is alive: the first has its
\* colour suppressed and its command queued, the second sits on its ball.
C16_OneIdlesOneFollows ==
  /\ "idled" \in log /\ "sync" \notin done
  /\ \E t \in Range(tableA), u \in Range(tableA) :
       /\ trails[t].link[1] \notin DOMAIN balls
       /\ trails[t].color = NONE
       /\ \E i \in DOMAIN cmds : cmds[i].op = "deactivate" /\ cmds[i].trail = t
       /\ trails[u].link[1] \in DOMAIN balls
       /\ trails[u].link[1] \in DOMAIN rapier
       /\ trails[u].color # NONE
       /\ trails[u].pos = rapier[trails[u].link[1]]

\* the commands of the step that move a trail to Idle, in order
Transitions == SelectSeq(NewCmds, LAMBDA c : c.op = "deactivate")

\* the toggle after n flips
Flipped(b, n) == IF n % 2 = 0 THEN b ELSE ~b

\* C17: in one run of update_workers_particle_position the k-th trail that
\* goes from Active to Idle is tagged with the toggle as k - 1 flips left it,
\* there is one transition for each Active trail whose ball is gone, and the
\* toggle ends flipped once per transition; no other step changes the
\* toggle. Consecutive transitions, in one tick or across ticks, therefore
\* get opposite tags.
C17_ToggleAlternates ==
  [][IF Took("update")
       THEN /\ \A k \in DOMAIN Transitions :
                 Transitions[k].is_left = Flipped(go_left, k - 1)
            /\ Len(Transitions) =
                 Cardinality({t \in Range(tableA) : trails[t].link[1] \notin DOMAIN balls})
            /\ go_left' = Flipped(go_left, Len(Transitions))
       ELSE go_left' = go_left]_vars

\* C17 witness: after a transition in an earlier tick left the toggle set,
\* one update has moved two trails to Idle, the first tagged left and the
\* second tagged right.
C17_TwoTransitionsInOneRun ==
  /\ "idled" \in log /\ "sync" \notin done
  /\ go_left
  /\ \E i, j \in DOMAIN cmds :
       /\ i < j
       /\ cmds[i].op = "deactivate" /\ cmds[i].is_left
       /\ cmds[j].op = "deactivate" /\ ~cmds[j].is_left
       /\ cmds[i].trail # cmds[j].trail

\* C18: a restart that runs resets the toggle of the trail update: after it
\* the toggle has its initial value, false.
C18_RestartResetsToggle ==
  [][(Took("restart") /\ "restart" \in log') => go_left' = FALSE]_vars

\* the trails of the Idle table that the step leaves tagged is_left
Retagged(is_left) == {t \in Range(tableB) : trails'[t].inactive = Some(is_left)}

\* C19: a restart that runs re-tags the Idle trails in iteration order
\* starting from false (right) and alternating: the first is tagged right,
\* the k-th as k - 1 flips of false say; among the re-tagged trails the
\* right tags are as many as the left tags or one more; the trails that are
\* not Idle keep their state.
C19_RestartRetags ==
  [][(Took("restart") /\ "restart" \in log') =>
       /\ \A k \in DOMAIN tableB :
            trails'[tableB[k]].inactive = Some(Flipped(FALSE, k - 1))
       /\ Cardinality(Retagged(FALSE)) - Cardinality(Retagged(TRUE)) \in {0, 1}
       /\ \A t \in DOMAIN trails \ Range(tableB) :
            trails'[t].inactive = trails[t].inactive]_vars

\* C19 witness: restart has run in a tick that began with at least two Idle
\* trails: the first of the table is tagged right, the second left.
C19_TwoRetagged ==
  /\ "restart" \in log /\ "idled" \notin log
  /\ Len(tableB) >= 2
  /\ trails[tableB[1]].inactive = Some(FALSE)
  /\ trails[tableB[2]].inactive = Some(TRUE)

\* the smaller of two numbers
Min(a, b) == IF a <= b THEN a ELSE b

\* the commands of the step that re-activate an idle trail for a ball it
\* creates on a panel
Reused(side) ==
  {c \in Range(NewCmds) :
     c.op = "activate" /\ \E b \in CreatedOn(side) : b.ball = c.ball}

\* the rule of a paired spawn on one panel
PairRule(side, want_left) ==
  LET k == Min(IdleCount(want_left), 2)
  IN /\ Cardinality(Reused(side)) = k
     /\ Cardinality({c.trail : c \in Reused(side)}) = k
     /\ Cardinality(Allocated(side)) = 2 - k
     /\ \A c \in Reused(side) :
          /\ trails[c.trail].inactive = Some(want_left)
          /\ \E b \in CreatedOn(side) :
               /\ b.ball = c.ball
               /\ trails'[c.trail].color = b.owner
               /\ trails'[c.trail].pos = <<b.x + RootX(side), WORKER_BALL_SPAWN_Y>>

\* C20: when spawn_workers fires for a panel with both participants alive
\* and k idle trails tagged with the side of the panel, it re-activates
\* exactly min(k, 2) of them, distinct ones, and allocates 2 - min(k, 2) new
\* trails; it takes no idle trail tagged with the other side; each trail it
\* takes gets the colour of the new ball's participant and the spawn point of
\* the ball as its position, and when the commands of the tick are applied
\* it is Active, linked to that ball, with that colour.
C20_PairedReuse ==
  [][/\ (Took("spawn") /\ "fired" \in log') =>
          /\ (survivors["A"] /\ survivors["B"]) => PairRule("Left", TRUE)
          /\ (survivors["C"] /\ survivors["D"]) => PairRule("Right", FALSE)
     /\ FrameEnds =>
          \A i \in DOMAIN cmds :
             cmds[i].op = "activate" =>
               /\ trails'[cmds[i].trail].link = Some(cmds[i].ball)
               /\ trails'[cmds[i].trail].inactive = None
               /\ cmds[i].ball \in DOMAIN balls'
               /\ trails'[cmds[i].trail].color = balls'[cmds[i].ball].owner]_vars

\* the panel side a coloured trail serves: the panel of the participant whose
\* colour it carries, which is the panel of the ball it is linked to
ServedLeft(t) == for_participant(trails[t].color) = "Left"

\* C21: a trail that goes from Active to Idle is tagged with, and parked at
\* the resting position of, the panel side it last served: the side of the
\* panel of the ball it was linked to.
C21_IdleAtServedSide ==
  [][Took("update") =>
       \A k \in DOMAIN Transitions :
          LET t == Transitions[k].trail
          IN trails[t].color # NONE =>
               /\ Transitions[k].is_left = ServedLeft(t)
               /\ trails'[t].pos = RestPos(ServedLeft(t))]_vars

\* the spawner is at its cap
Capped == spawner.counter = WORKER_BALL_COUNT_MAX

\* C22, as stated: while the counter is at the maximum and the game is going,
\* the timer of the spawner advances by the elapsed time in every tick.
C22_TimerAdvancesWhenCapped ==
  [][(Took("spawn") /\ going /\ Capped)
       => spawner'.elapsed = TimerTick(spawner.elapsed, FrameDelta)[1]]_vars

\* C22, amended: while the counter is at the maximum spawn_workers does not
\* run: on its turn the timer and the counter stay as they are and nothing
\* is queued; the only step that changes the capped spawner is a restart,
\* which puts it back to its initial state.
C22_TimerFrozenWhenCapped ==
  [][Capped =>
       /\ Took("spawn") => (spawner' = spawner /\ NewCmds = <<>> /\ "spawn" \notin log')
       /\ spawner' # spawner
            => (Took("restart") /\ spawner' = WorkerBallSpawner_new)]_vars

\* C22 witness: no restart signal was ever sent; three ticks after the round
\* that reached the cap the timer still reads what that round left, although
\* a full period has gone by.
C22_PeriodPassedTimerUnmoved ==
  /\ Capped /\ spawner.elapsed = 0
  /\ env.frames = 0
  /\ env.restarts = MaxRestarts + 1
  /\ "spawn" \in done
  /\ DOMAIN balls # {}

\* the timer of the spawner runs out in this tick
TimerRunsOut ==
  /\ going /\ spawner.counter < WORKER_BALL_COUNT_MAX
  /\ spawner.elapsed + FrameDelta >= WORKER_BALL_SPAWN_TIMER_SECS

\* C23: on spawn_workers' turn in a tick in which the timer fires the counter
\* goes up by exactly one, whether the round creates 0, 1, 2, 3 or 4 balls;
\* in a tick in which it does not fire spawn_workers leaves the counter alone
\* and queues nothing, so the balls stay as they are; a step that lowers the
\* counter is a restart, and no other system changes it.
C23_CounterPerRound ==
  [][/\ Took("spawn") =>
          IF TimerRunsOut
            THEN /\ spawner'.counter = spawner.counter + 1
                 /\ Cardinality(Created) \in 0 .. 4
                 /\ "fired" \in log'
            ELSE /\ spawner'.counter = spawner.counter
                 /\ NewCmds = <<>>
                 /\ balls' = balls
     /\ spawner'.counter < spawner.counter => Took("restart")
     /\ spawner'.counter # spawner.counter => (Took("spawn") \/ Took("restart"))]_vars

\* C23 witness: with no participant alive the timer has fired: the round
\* created no ball and the counter stands at one.
C23_EmptyRoundCounted ==
  /\ \A p \in Participant : ~survivors[p]
  /\ "fired" \in log
  /\ cmds = <<>>
  /\ spawner.counter = 1

\* the running time the timer of the spawner has after one more tick
Accumulated == spawner.elapsed + FrameDelta

\* C24: a restart that runs leaves the spawner in the state of
\* WorkerBallSpawner::new, counter 0 and a timer that has run for the period
\* less TRAIL_LIFETIME; the spawner starts in that state; spawn_workers,
\* when it runs, fires exactly when the running time reaches the period and
\* carries the rest over, so that the first round after the start or a
\* restart comes TRAIL_LIFETIME of spawner time later and each later round
\* a period after the one before.
C24_ResetIsNew ==
  [][/\ (Took("restart") /\ "restart" \in log') =>
          /\ spawner' = WorkerBallSpawner_new
          /\ spawner' = [elapsed |-> WORKER_BALL_SPAWN_TIMER_SECS - TRAIL_LIFETIME,
                         counter |-> 0]
     /\ (Took("spawn") /\ "spawn" \in log') =>
          IF Accumulated >= WORKER_BALL_SPAWN_TIMER_SECS
            THEN /\ "fired" \in log'
                 /\ spawner'.elapsed = Accumulated - WORKER_BALL_SPAWN_TIMER_SECS
            ELSE /\ "fired" \notin log'
                 /\ spawner'.elapsed = Accumulated
     /\ (env.frames = MaxFrames + 2 /\ done = {} /\ log = EmptyLog)
          => spawner = WorkerBallSpawner_new]_vars

\* C24 witness: in one tick spawn_workers fired a round, which left the
\* timer at 0 and the counter above 0, and restart ran after it: the spawner
\* is back at counter 0 with the timer TRAIL_LIFETIME short of the period.
C24_ResetAfterRound ==
  /\ {"fired", "restart"} \subseteq log
  /\ spawner.counter = 0
  /\ spawner.elapsed = WORKER_BALL_SPAWN_TIMER_SECS - TRAIL_LIFETIME

\* a side of the event is a trigger zone, a side is a live worker ball
HasZone(ev) == ev.a[1] = "zone" \/ ev.b[1] = "zone"
HasLiveBall(ev) ==
  \/ (ev.a[1] = "ball" /\ ev.a[2] \in DOMAIN balls)
  \/ (ev.b[1] = "ball" /\ ev.b[2] \in DOMAIN balls)

\* the events trigger_event has to translate
Translatable(evs) ==
  SelectSeq(evs, LAMBDA ev : ev.kind = "Started" /\ HasZone(ev) /\ HasLiveBall(ev))

\* the TriggerEvent of a translatable event
TriggerOf(ev) ==
  [participant |-> balls[IF ev.a[1] = "ball" THEN ev.a[2] ELSE ev.b[2]].owner,
   trigger_type |-> IF ev.a[1] = "zone" THEN ev.a[2] ELSE ev.b[2]]

\* C25: trigger_event sends nothing for a contact-end event, for a
\* contact-begin without a trigger zone on either side, or for one without a
\* live worker ball on either side; it skips such an event and goes on: the
\* TriggerEvents it sends are those of the other events of the batch, all of
\* them, in order.
C25_SkipsAndGoesOn ==
  [][(Took("trigger") /\ unread["trigger"] = {}) =>
       triggers' = triggers \o
         [i \in DOMAIN Translatable(Fresh) |-> TriggerOf(Translatable(Fresh)[i])]]_vars

\* C25 witness: the batch began with a contact-begin between a trigger zone
\* and a ball that is gone, followed by one with ball 1, alive: trigger_event
\* has sent one TriggerEvent, for the second event.
C25_StaleThenLive ==
  /\ "trigger" \in log
  /\ Len(collisions) = 2
  /\ collisions[1].kind = "Started" /\ HasZone(collisions[1])
  /\ BallEntity(2) \in {collisions[1].a, collisions[1].b}
  /\ 2 \notin DOMAIN balls
  /\ collisions[2] = [kind |-> "Started", a |-> BallEntity(1),
                                          b |-> ZoneEntity("BurstShot")]
  /\ triggers = <<[participant |-> "A", trigger_type |-> "BurstShot"]>>

\* the placement x is clear of every ball the physics world holds on the
\* spawn row of the panel
Clear(side, x) ==
  \A id \in DOMAIN rapier :
     LET dx == x + RootX(side) - rapier[id][1]
         dy == WORKER_BALL_SPAWN_Y - rapier[id][2]
     IN dx * dx + dy * dy > WORKER_BALL_DIAMETER * WORKER_BALL_DIAMETER

\* the balls the physics world holds on a panel
OnPanel(side) == {id \in DOMAIN rapier : balls[id].side = side}

Moved(b, c) ==
  [b EXCEPT !.x = c.x, !.y = c.y, !.moving = c.moving, !.age = c.age]

\* C27: ball_reset creates and destroys no WorkerBall, so the number of live
\* balls is the same before and after; it changes no ball's owner or panel,
\* no trail and no trail table, and queues no command: a ball differs after
\* the system at most in its position and velocity.
C27_ResetOnlyMoves ==
  [][Took("reset") =>
       /\ DOMAIN balls' = DOMAIN balls
       /\ Cardinality(DOMAIN balls') = Cardinality(DOMAIN balls)
       /\ \A id \in DOMAIN balls :
            /\ balls'[id].owner = balls[id].owner
            /\ balls'[id] = Moved(balls[id], balls'[id])
       /\ trails' = trails /\ tableA' = tableA /\ tableB' = tableB
       /\ cmds' = cmds]_vars

\* C27 witness: ball_reset has put a fallen ball back on the spawn row while
\* the trail following it is still linked to it
C27_RecycledWithTrail ==
  /\ "reset" \in done
  /\ \E id \in DOMAIN balls :
       /\ id \in DOMAIN rapier /\ rapier[id][2] = TRIGGER_ZONE_Y
       /\ balls[id].y = WORKER_BALL_SPAWN_Y /\ ~balls[id].moving
       /\ \E t \in DOMAIN trails : trails[t].link = Some(id)

\* the panel the participants are assigned to: A and B play on the left
\* panel, C and D on the right one
Assigned(owner, side) ==
  /\ owner \in {"A", "B"} => side = "Left"
  /\ owner \in {"C", "D"} => side = "Right"

\* C28: every live WorkerBall, and every ball a queued command will spawn,
\* is on the panel assigned to its owner, after every step; and a ball that
\* ball_reset recycles is put at a position found free on the panel it
\* lives in.
C28_BallOnOwnersPanel ==
  [][/\ \A id \in DOMAIN balls' : Assigned(balls'[id].owner, balls'[id].side)
     /\ \A i \in DOMAIN cmds' :
          cmds'[i].op = "spawnBall" => Assigned(cmds'[i].owner, cmds'[i].side)
     /\ Took("reset") =>
          \A id \in DOMAIN balls :
             balls'[id] # balls[id] => Clear(balls[id].side, balls'[id].x)]_vars

\* C28 witness: a ball was recycled while another ball of its panel rested on
\* the spawn row in the physics world
C28_RecycledBesideRowBall ==
  /\ "reset" \in done
  /\ \E id, other \in DOMAIN balls :
       /\ id # other
       /\ id \in DOMAIN rapier /\ rapier[id][2] = TRIGGER_ZONE_Y
       /\ balls[id].y = WORKER_BALL_SPAWN_Y /\ ~balls[id].moving
       /\ other \in DOMAIN rapier /\ rapier[other][2] = WORKER_BALL_SPAWN_Y
       /\ balls[other].side = balls[id].side

\* the trails holding the Idle tag
IdleTagged == {t \in DOMAIN trails : trails[t].inactive # None}

\* trail t is parked where its tag says, without colour
AtRest(t) ==
  /\ trails[t].color = NONE
  /\ trails[t].inactive = Some(TRUE)
       => trails[t].pos = <<LEFT_ROOT_X, WORKER_BALL_SPAWN_Y>>
  /\ trails[t].inactive = Some(FALSE)
       => trails[t].pos = <<RIGHT_ROOT_X, WORKER_BALL_SPAWN_Y>>

\* C29, as stated: in every reachable state every trail holding the Idle tag
\* is parked at the resting position of its tag, (LEFT_ROOT_X, spawn height)
\* for Left and (RIGHT_ROOT_X, spawn height) for Right, with its colour
\* suppressed.
C29_IdleTrailsAtRest == \A t \in IdleTagged : AtRest(t)


\* C30: no step destroys a Trail, and the number of Trails never exceeds the
\* maximum number of simultaneously live balls, 4 * WORKER_BALL_COUNT_MAX.
C30_TrailPoolBounded ==
  [][/\ DOMAIN trails \subseteq DOMAIN trails'
     /\ Cardinality(DOMAIN trails') <= 4 * WORKER_BALL_COUNT_MAX]_vars


\* the live balls of a panel
LiveOn(side) == {id \in DOMAIN balls : balls[id].side = side}

\* C31: between ticks, a panel holds at most 2 * WORKER_BALL_COUNT_MAX live
\* WorkerBalls, and at most two for every spawn round the counter has counted,
\* whatever the order of spawn rounds, recycling, removals and restarts.
C31_PopulationCapped ==
  done = {} =>
    \A side \in PanelRootSide :
       /\ Cardinality(LiveOn(side)) <= 2 * WORKER_BALL_COUNT_MAX
       /\ Cardinality(LiveOn(side)) <= 2 * spawner.counter

====
